---- MODULE Spec2Model ----
(***************************************************************************)
(* Model of demo-realtime's double spinning wheel neurofeedback:           *)
(*   - DoubleSpinningWheel (feedbacks/double_spinning_wheel.py): the       *)
(*     control-side handle (start, stop, __del__, speed, active) and the   *)
(*     actuator process running _main_loop;                                *)
(*   - nfb_double_spinning_wheel (nfb_double_spinning_wheel.py): the       *)
(*     function as written.                                                *)
(*                                                                         *)
(* The specifications share the variables:                                 *)
(*   Spec       a client calls the handle's operations in any order while  *)
(*              the actuator process runs concurrently;                    *)
(*   LoopSpec   a call of nfb_double_spinning_wheel(stream_name, winsize,  *)
(*              duration): the input checks, the receiver, the constructor *)
(*              call of line 45.                                           *)
(*                                                                         *)
(* Line 45 passes size=(800, 800), a tuple, which __init__ cannot compare  *)
(* with -1 at line 83: every call of the function that reaches line 45     *)
(* ends there with TypeError, no handle exists and no statement of lines   *)
(* 47-90 is executed.  LoopSpec has these behaviours and no other; the     *)
(* statements of lines 47-90 are not steps of it.                          *)
(***************************************************************************)
EXTENDS Integers, FiniteSets, Sequences, TLC

VARIABLES
    speed,          \* self._speed  : Value("i")
    status,         \* self._status : Value("i")
    proc,           \* self._process: "absent" (no handle constructed) |
                    \* "initial" (never started) | "started"
    hpc,            \* position of the control side inside a handle call
    call,           \* the last handle call and its outcome
    destroyed,      \* TRUE once __del__ has run
    stopFrames,     \* frames drawn when stop() last wrote status, else -1
    apc,            \* position of the actuator process in _main_loop
    win,            \* the psychopy Window: "none" | "open" | "closed"
    lori,           \* lwheel.ori
    rori,           \* rwheel.ori
    frames,         \* number of win.flip() calls made by the draw loop
    ncalls,         \* number of handle calls issued by the client (Spec)
    lpc,            \* position of nfb_double_spinning_wheel
    winsize,        \* argument `winsize`
    duration,       \* argument `duration`
    exc             \* exception that left nfb_double_spinning_wheel

hvars == <<speed, status, proc, hpc, call, destroyed, stopFrames>>
avars == <<apc, win, lori, rori, frames>>
lvars == <<lpc, winsize, duration, exc>>
vars  == <<hvars, avars, ncalls, lvars>>

----------------------------------------------------------------------------
(* Bounds *)

MaxCalls    == 5      \* handle calls a client issues in Spec
MaxFrames   == 1      \* frames the actuator draws
MaxWinsize  == 5      \* largest `winsize` argument
MaxDuration == 5      \* largest `duration` argument

(* Program constants *)

Capacity == 100     \* metrics = np.ones(100) * np.nan

----------------------------------------------------------------------------
(* DoubleSpinningWheel: the control-side handle                            *)

\* The outcome of a handle call.  out: "pending" while the call is inside
\* start()/stop(), then "ok" or the exception raised.  inner: "stop" when
\* __del__ went through stop().  join: how Process.join(5) returned.
\* val: the value a getter returned, or the argument of the setter (in
\* halves, see IsIntegral).
Call(op, out, inner, join, val) ==
    [op |-> op, out |-> out, inner |-> inner, join |-> join, val |-> val]

NoCall == Call("none", "none", "none", "none", 0)

\* Speed arguments are given in halves, so that 3 stands for 1.5:
\* the argument h stands for the number h / 2.
IsIntegral(h) == h % 2 = 0

\* mutant: start() without its guard
StartRejectedNever(s) == FALSE

\* start(): `if self._status.value == 1: raise RuntimeError`
StartRejected(s) == s = 1

\* stop(): `if self._status.value == 0: raise RuntimeError`
StopRejected(s) == s = 0

\* mutant: __del__ without the call of stop()
DelStopsNever(s) == FALSE

\* __del__(): `if self._status.value == 1: self.stop()`
DelStops(s) == s = 1

\* Process.start(): `assert self._popen is None, 'cannot start a process
\* twice'`; the Process object is created once, in __init__
CanSpawn(p) == p = "initial"

\* mutant: start() spawns the unit without writing status first
HStartNoStatusWrite ==
    /\ hpc = "idle"
    /\ ~destroyed
    /\ IF StartRejected(status)
       THEN /\ call' = Call("start", "RuntimeError", "none", "none", 0)
            /\ UNCHANGED <<speed, status, proc, hpc, destroyed>>
       ELSE /\ hpc' = "start_spawn"
            /\ call' = Call("start", "pending", "none", "none", 0)
            /\ UNCHANGED <<speed, status, proc, destroyed>>
    /\ UNCHANGED stopFrames
    /\ UNCHANGED avars

\* start(), lines 110-114: the guard and the write of status
HStart ==
    /\ hpc = "idle"
    /\ ~destroyed
    /\ IF StartRejected(status)
       THEN /\ call' = Call("start", "RuntimeError", "none", "none", 0)
            /\ UNCHANGED <<speed, status, proc, hpc, destroyed>>
       ELSE /\ status' = 1
            /\ hpc' = "start_spawn"
            /\ call' = Call("start", "pending", "none", "none", 0)
            /\ UNCHANGED <<speed, proc, destroyed>>
    /\ UNCHANGED stopFrames
    /\ UNCHANGED avars

\* start(), line 115: self._process.start()
HStartSpawn ==
    /\ hpc = "start_spawn"
    /\ hpc' = "idle"
    /\ IF CanSpawn(proc)
       THEN /\ proc' = "started"
            /\ apc' = "open"
            /\ call' = [call EXCEPT !.out = "ok"]
       ELSE /\ call' = [call EXCEPT !.out = "AssertionError"]
            /\ UNCHANGED <<proc, apc>>
    /\ UNCHANGED <<speed, status, destroyed, stopFrames>>
    /\ UNCHANGED <<win, lori, rori, frames>>

\* stop(), lines 119-122: the guard and the write of status
HStop ==
    /\ hpc = "idle"
    /\ ~destroyed
    /\ IF StopRejected(status)
       THEN /\ call' = Call("stop", "RuntimeError", "none", "none", 0)
            /\ UNCHANGED <<speed, status, proc, hpc, destroyed, stopFrames>>
       ELSE /\ status' = 0
            /\ stopFrames' = frames
            /\ hpc' = "stop_join"
            /\ call' = Call("stop", "pending", "none", "none", 0)
            /\ UNCHANGED <<speed, proc, destroyed>>
    /\ UNCHANGED avars

\* stop(), line 123: self._process.join(5) returns once the process has
\* exited, or after the timeout while it is still alive; Process.join
\* asserts that the process was started
HStopJoin ==
    /\ hpc = "stop_join"
    /\ hpc' = "idle"
    /\ IF proc = "initial"
       THEN call' = [call EXCEPT !.out = "AssertionError"]
       ELSE call' = [call EXCEPT !.out = "ok",
                                 !.join = IF apc = "done" THEN "exited"
                                          ELSE "timeout"]
    /\ UNCHANGED <<speed, status, proc, destroyed, stopFrames>>
    /\ UNCHANGED avars

\* __del__(), lines 125-128
HDel ==
    /\ hpc = "idle"
    /\ ~destroyed
    /\ destroyed' = TRUE
    /\ IF DelStops(status)
       THEN /\ status' = 0
            /\ stopFrames' = frames
            /\ hpc' = "stop_join"
            /\ call' = Call("del", "pending", "stop", "none", 0)
       ELSE /\ call' = Call("del", "ok", "none", "none", 0)
            /\ UNCHANGED <<status, hpc, stopFrames>>
    /\ UNCHANGED <<speed, proc>>
    /\ UNCHANGED avars

\* line 218: the cell is a C int (line 94); its store takes an int object
\* and raises TypeError for a float, whatever the float's value
CellAccepts(isFloat) == ~isFloat

\* outcome of the setter for the value h / 2 of type int or float
SetSpeedOutcome(h, isFloat) ==
    IF ~IsIntegral(h) THEN "AssertionError"
    ELSE IF ~CellAccepts(isFloat) THEN "TypeError"
    ELSE "ok"

\* mutant: the setter writes the status cell instead of the speed cell
HSetSpeedWrongCell(h, isFloat) ==
    /\ hpc = "idle"
    /\ ~destroyed
    /\ call' = Call("set_speed", SetSpeedOutcome(h, isFloat), "none", "none", h)
    /\ IF SetSpeedOutcome(h, isFloat) = "ok"
       THEN status' = h \div 2
       ELSE UNCHANGED status
    /\ UNCHANGED <<speed, proc, hpc, destroyed, stopFrames>>
    /\ UNCHANGED avars

\* mutant: the setter writes int(speed) before it checks the argument
HSetSpeedWriteFirst(h, isFloat) ==
    /\ hpc = "idle"
    /\ ~destroyed
    /\ speed' = h \div 2
    /\ call' = Call("set_speed", SetSpeedOutcome(h, isFloat), "none", "none", h)
    /\ UNCHANGED <<status, proc, hpc, destroyed, stopFrames>>
    /\ UNCHANGED avars

\* speed setter, lines 213-218: the assert of line 216, then the store
HSetSpeed(h, isFloat) ==
    /\ hpc = "idle"
    /\ ~destroyed
    /\ call' = Call("set_speed", SetSpeedOutcome(h, isFloat), "none", "none", h)
    /\ IF SetSpeedOutcome(h, isFloat) = "ok"
       THEN speed' = h \div 2
       ELSE UNCHANGED speed
    /\ UNCHANGED <<status, proc, hpc, destroyed, stopFrames>>
    /\ UNCHANGED avars

\* speed getter, lines 205-211
HGetSpeed ==
    /\ hpc = "idle"
    /\ ~destroyed
    /\ call' = Call("speed", "ok", "none", "none", speed)
    /\ UNCHANGED <<speed, status, proc, hpc, destroyed, stopFrames>>
    /\ UNCHANGED avars

\* active, lines 220-226: bool(self._status.value), as 0 / 1
HGetActive ==
    /\ hpc = "idle"
    /\ ~destroyed
    /\ call' = Call("active", "ok", "none", "none",
                    IF status # 0 THEN 1 ELSE 0)
    /\ UNCHANGED <<speed, status, proc, hpc, destroyed, stopFrames>>
    /\ UNCHANGED avars

----------------------------------------------------------------------------
(* DoubleSpinningWheel._main_loop: the actuator process                    *)

\* lines 143-154: open the window, create the wheels, first flip
ActOpen ==
    /\ apc = "open"
    /\ win' = "open"
    /\ apc' = "test"
    /\ UNCHANGED <<lori, rori, frames>>

\* lines 157-159: `if status.value == 0: break`
ActTest ==
    /\ apc = "test"
    /\ status = 0 \/ frames < MaxFrames
    /\ apc' = IF status = 0 THEN "close" ELSE "left"
    /\ UNCHANGED <<win, lori, rori, frames>>

\* line 161: lwheel.ori += speed.value
ActLeft ==
    /\ apc = "left"
    /\ lori' = lori + speed
    /\ apc' = "right"
    /\ UNCHANGED <<win, rori, frames>>

\* line 162: rwheel.ori -= speed.value
ActRight ==
    /\ apc = "right"
    /\ rori' = rori - speed
    /\ apc' = "flip"
    /\ UNCHANGED <<win, lori, frames>>

\* lines 163-165: draw both wheels and flip
ActFlip ==
    /\ apc = "flip"
    /\ frames' = frames + 1
    /\ apc' = "test"
    /\ UNCHANGED <<win, lori, rori>>

\* line 168: win.close(), then the process exits
ActClose ==
    /\ apc = "close"
    /\ win' = "closed"
    /\ apc' = "done"
    /\ UNCHANGED <<lori, rori, frames>>

HandleInit ==
    /\ speed = 0
    /\ status = 0
    /\ proc = "initial"
    /\ hpc = "idle"
    /\ call = NoCall
    /\ destroyed = FALSE
    /\ stopFrames = 0 - 1
    /\ apc = "unspawned"
    /\ win = "none"
    /\ lori = 0
    /\ rori = 0
    /\ frames = 0

\* the actuator process takes a step; the control side does not
AOpen == ActOpen /\ UNCHANGED <<hvars, ncalls, lvars>>

ATest == ActTest /\ UNCHANGED <<hvars, ncalls, lvars>>

ALeft == ActLeft /\ UNCHANGED <<hvars, ncalls, lvars>>

ARight == ActRight /\ UNCHANGED <<hvars, ncalls, lvars>>

AFlip == ActFlip /\ UNCHANGED <<hvars, ncalls, lvars>>

AClose == ActClose /\ UNCHANGED <<hvars, ncalls, lvars>>


----------------------------------------------------------------------------
(* nfb_double_spinning_wheel: a call of the function, LoopSpec             *)

\* the function is not being called
NotCalled ==
    /\ lpc = "off"
    /\ winsize = 0
    /\ duration = 0
    /\ exc = "none"

\* no handle exists: the cells and the process object are created by
\* lines 94-106 of __init__
NoHandle ==
    /\ speed = 0
    /\ status = 0
    /\ proc = "absent"
    /\ hpc = "idle"
    /\ call = NoCall
    /\ destroyed = FALSE
    /\ stopFrames = 0 - 1
    /\ apc = "unspawned"
    /\ win = "none"
    /\ lori = 0
    /\ rori = 0
    /\ frames = 0

Winsizes == 0 .. MaxWinsize

Durations == 0 .. MaxDuration

\* the call: stream_name a str, winsize and duration numbers
LoopInit ==
    /\ NoHandle
    /\ ncalls = 0
    /\ lpc = "check"
    /\ winsize \in Winsizes
    /\ duration \in Durations
    /\ exc = "none"

\* an exception leaves nfb_double_spinning_wheel: nothing catches it and
\* no statement of the function runs after it
Raise(e) == lpc' = "raised" /\ exc' = e

LoopFrame == UNCHANGED <<hvars, avars, ncalls, winsize, duration>>

\* lines 33-39: `assert 0 < winsize`, `assert 0 < duration`
LCheck ==
    /\ lpc = "check"
    /\ IF 0 < winsize /\ 0 < duration
       THEN lpc' = "receiver" /\ UNCHANGED exc
       ELSE Raise("AssertionError")
    /\ LoopFrame

\* lines 42-44: sr = StreamReceiver(...), which connects to the stream or
\* raises
LReceiver ==
    /\ lpc = "receiver"
    /\ \/ lpc' = "construct" /\ UNCHANGED exc
       \/ Raise("StreamReceiver")
    /\ LoopFrame

\* line 45: feedback = DoubleSpinningWheel(size=(800, 800)).  __init__
\* raises TypeError for the tuple (the check of line 80, or `var < -1` at
\* line 83) before lines 94-106 create the cells and the process: no
\* handle exists, and __del__ of the unfinished object finds no _status
\* (AttributeError, ignored by the interpreter).
LConstruct ==
    /\ lpc = "construct"
    /\ Raise("TypeError")
    /\ LoopFrame

LoopNext ==
    \/ LCheck
    \/ LReceiver
    \/ LConstruct

LoopSpec == LoopInit /\ [][LoopNext]_vars

\* the statements of the function
LoopStep ==
    \/ LCheck
    \/ LReceiver
    \/ LConstruct

\* each statement of the function is eventually executed
LoopFairSpec == LoopSpec /\ WF_vars(LoopStep)

----------------------------------------------------------------------------
(* A client of the handle: Spec                                            *)

\* speed arguments the client passes, <<value in halves, is a float>>:
\* the ints -1, 0, 1, 2 and the floats 1.5, 2.0
SpeedArgs ==
    {<<0 - 2, FALSE>>, <<0, FALSE>>, <<2, FALSE>>, <<4, FALSE>>,
     <<3, TRUE>>, <<4, TRUE>>}

Init ==
    /\ HandleInit
    /\ ncalls = 0
    /\ NotCalled

Issue ==
    ncalls < MaxCalls /\ ncalls' = ncalls + 1 /\ UNCHANGED lvars

Continue == UNCHANGED <<ncalls, lvars>>

CStart == HStart /\ Issue

CStartSpawn == lpc = "off" /\ HStartSpawn /\ Continue

CStop == HStop /\ Issue

CStopJoin == lpc = "off" /\ HStopJoin /\ Continue

CDel == HDel /\ Issue

CSetSpeed == \E a \in SpeedArgs : HSetSpeed(a[1], a[2]) /\ Issue

CGetSpeed == HGetSpeed /\ Issue

CGetActive == HGetActive /\ Issue

Next ==
    \/ CStart
    \/ CStartSpawn
    \/ CStop
    \/ CStopJoin
    \/ CDel
    \/ CSetSpeed
    \/ CGetSpeed
    \/ CGetActive
    \/ AOpen
    \/ ATest
    \/ ALeft
    \/ ARight
    \/ AFlip
    \/ AClose

Spec == Init /\ [][Next]_vars

----------------------------------------------------------------------------
(* Properties                                                              *)

\* a step in which the client enters a handle call
IsCallStep == ncalls' = ncalls + 1

\* the call was turned down as a usage error
IsUsageError(c) ==
    \/ c.op \in {"start", "stop"} /\ c.out = "RuntimeError"
    \/ c.op = "set_speed" /\ c.out = "AssertionError"


\* C1 - Lifecycle guards: start() called while status = 1 raises the usage
\* error, stop() called while status = 0 (also before any start()) raises
\* the usage error, and `active` read right after a stop() that followed a
\* start() returns false.
C1_LifecycleGuards ==
    [][IsCallStep =>
        /\ (call'.op = "start" /\ status = 1 => call'.out = "RuntimeError")
        /\ (call'.op = "stop" /\ status = 0 => call'.out = "RuntimeError")
        /\ (call'.op = "active" /\ call.op = "stop" /\ call.out = "ok"
                => call'.val = 0)]_vars

\* a second start() was turned down while the first one's unit exists
C1_Witness ==
    /\ call.op = "start"
    /\ call.out = "RuntimeError"
    /\ status = 1
    /\ proc = "started"

\* C4 - Status cell: status is 0 or 1; it changes only from 0 to 1 in a
\* start() and from 1 to 0 in a stop() (also the stop() of __del__); no other
\* step writes it, and a step of the actuator writes neither cell.
C4_StatusCell ==
    /\ [](status \in {0, 1})
    /\ [][/\ status' # status =>
                \/ status = 0 /\ status' = 1 /\ IsCallStep
                     /\ call'.op = "start"
                \/ status = 1 /\ status' = 0 /\ IsCallStep
                     /\ (call'.op = "stop" \/ call'.inner = "stop")
          /\ speed' # speed => IsCallStep /\ call'.op = "set_speed"
          /\ (apc # "unspawned" /\ apc' # apc)
                => (status' = status /\ speed' = speed)]_vars

\* started, frames drawn, stopped
C4_Witness ==
    /\ status = 0
    /\ call.op = "stop"
    /\ call.out = "ok"
    /\ frames > 0
    /\ speed # 0

\* C7 - Short session: a call whose duration is shorter than the time of
\* 100 windows, once it has its receiver, eventually reaches teardown:
\* stop() is called with status 0.
C7_ShortSessionEndsInWarmup ==
    (lpc = "construct" /\ duration < Capacity * winsize)
        ~> (call.op = "stop" /\ status = 0)


\* C8 - Every start() made while status = 0 succeeds: once it has returned,
\* it has spawned an actuator unit.
C8_StartAlwaysSpawns ==
    (hpc = "idle" /\ call.op = "start" /\ call.out # "RuntimeError")
        => (call.out = "ok" /\ status = 1 /\ proc = "started")

\* C9 (as stated) - Implicit teardown: once the handle is destroyed, status
\* is 0, no actuator unit is left running, and no error was raised.
C9_NoUnitLeftRunning ==
    (destroyed /\ hpc = "idle")
        => /\ status = 0
           /\ call.out = "ok"
           /\ apc \in {"unspawned", "done"}

\* C9 (amended) - Implicit teardown: __del__ goes through stop() exactly
\* when status is 1; once the handle is destroyed status is 0 and stays 0,
\* and no usage error was raised.  The join is bounded: when the stop() of
\* __del__ returns while the unit has not exited, the join timed out.
C9_ImplicitTeardown ==
    /\ [][destroyed' /\ ~destroyed =>
            (call'.inner = "stop") <=> (status = 1)]_vars
    /\ [](destroyed /\ hpc = "idle" =>
            /\ status = 0
            /\ call.op = "del"
            /\ call.out = "ok"
            /\ (call.inner = "stop" /\ apc # "done"
                    => call.join = "timeout"))

\* the handle was destroyed while its unit was drawing; the join timed out
C9_Witness ==
    /\ destroyed
    /\ hpc = "idle"
    /\ call.inner = "stop"
    /\ call.join = "timeout"
    /\ frames > 0

\* C10 - Usage errors have no side effect: a start() turned down because
\* status = 1, a stop() turned down because status = 0 and a speed write
\* turned down because the value is not integral leave both cells, the
\* process and the actuator unit as they were.
C10_UsageErrorsNoSideEffect ==
    [][(IsCallStep /\ IsUsageError(call'))
        => UNCHANGED <<speed, status, proc, hpc, destroyed, avars>>]_vars

\* a non-integral speed was turned down while the unit runs at speed 2
C10_Witness ==
    /\ call.op = "set_speed"
    /\ call.out = "AssertionError"
    /\ status = 1
    /\ speed = 2
    /\ apc \notin {"unspawned", "done"}

\* C13: at every presented frame the two orientations have moved by the
\* same amount in opposite directions, so left + right keeps its initial
\* value 0, whatever speed writes interleave with the draw loop.
C13_CounterRotation ==
    apc \in {"flip", "test", "close", "done"} => lori + rori = 0

\* C14: once stop() has written status = 0, the draw loop's next loop test
\* leaves the loop (so at most the frame in progress is still presented),
\* and the surface is closed by the unit's own close step, which is also
\* the step that ends the unit.
C14_BoundedCancellation ==
    [][ /\ (stopFrames >= 0 /\ apc = "test" /\ apc' # "test"
                => apc' = "close")
        /\ (win = "open" /\ win' # "open"
                => apc = "close" /\ apc' = "done" /\ win' = "closed")
        /\ (apc # "done" /\ apc' = "done" => win' = "closed") ]_vars

\* C16: a setter call with an integral value v succeeds whatever the state
\* of the handle, stores v in the speed cell and leaves status and the
\* unit's state alone; and the first frame drawn after a start() applies
\* the speed that was in the cell when start() was called.
C16_SetterAnyState ==
    /\ [][ (IsCallStep /\ call'.op = "set_speed" /\ IsIntegral(call'.val))
              => /\ call'.out = "ok"
                 /\ speed' = call'.val \div 2
                 /\ status' = status
                 /\ proc' = proc
                 /\ UNCHANGED avars ]_vars
    /\ [](apc = "right" /\ frames = 0 /\ call.op = "start" /\ call.out = "ok"
              => lori = speed)

\* C17 - Session termination: a call that has its receiver eventually
\* reaches teardown, where stop() is called and returns.
C17_SessionTerminates ==
    (lpc = "construct") ~> (call.op = "stop" /\ call.out = "ok")


\* C19: a spawned unit finds status = 1 until a stop() (directly or through
\* __del__) has written status = 0 after the start(); the unit is past its
\* draw loop only if such a stop() has happened.
C19_StartOrdering ==
    /\ (apc # "unspawned" /\ stopFrames < 0 => status = 1)
    /\ (apc \in {"close", "done"} => stopFrames >= 0)

\* C19 witness: the unit drew a frame, then a stop() made it leave the loop
C19_Witness ==
    /\ apc = "done"
    /\ frames > 0
    /\ stopFrames >= 0
    /\ status = 0

====
